---- MODULE Spec2Model ----
(***************************************************************************)
(* The schema-synthesis pipeline of occ-tools:                             *)
(*   src/src/core/local-server/grab/api-schema.js                          *)
(* ApiSchema.makeRequest, ApiSchema.grab and the module's action dispatch. *)
(*                                                                         *)
(* Strings the code searches or rewrites (base path, registry urls, sample *)
(* text) are sequences of one-character strings, so that String.replace    *)
(* and RegExp.test are computed as the code computes them.  Identifiers    *)
(* the code only compares for equality (operation ids, methods, status     *)
(* codes, media types) are TLA+ strings.                                   *)
(***************************************************************************)
EXTENDS Integers, Sequences, FiniteSets, TLC

\* ------------------------------------------------------------------ bounds
\* Largest number of entries of the registry's endpointMap.
MaxRegistry == 2
\* Number of times the module function is dispatched, each run after the one
\* before it has resolved and against the same remote answers.
MaxRuns == 2

\* ----------------------------------------------------------------- strings
UiMarker == <<"u","i">>
CcAdmin == <<"c","c","a","d","m","i","n">>
CcAdminUi == <<"c","c","a","d","m","i","n","u","i">>
CcStore == <<"c","c","s","t","o","r","e">>
CcStoreUi == <<"c","c","s","t","o","r","e","u","i">>
ApiPrefix == <<"/","c","c","s","t","o","r","e","u","i","/","v","1">>
EmptyBraces == <<"{","}">>
BaseAdmin == <<"/","c","c","a","d","m","i","n","/","v","1">>
BaseStore == <<"/","c","c","s","t","o","r","e","/","v","1">>
BaseAdminUi == <<"/","c","c","a","d","m","i","n","u","i","/","v","1">>
BaseStoreUi == <<"/","c","c","s","t","o","r","e","u","i","/","v","1">>
BaseVersion == <<"/","v","1">>
UrlPing == <<"/","c","c","s","t","o","r","e","u","i","/","v","1","/","p","i","n","g">>
UrlItems == <<"/","c","c","s","t","o","r","e","u","i","/","v","1","/","i","t","e","m","s">>
UrlItem == <<"/","c","c","s","t","o","r","e","u","i","/","v","1","/","i","t","e","m","s","/","{","i","d","}">>
UrlRegistry == <<"/","c","c","s","t","o","r","e","u","i","/","v","1","/","r","e","g","i","s","t","r","y">>
UrlOrder == <<"/","c","c","s","t","o","r","e","u","i","/","v","1","/","o","r","d","e","r","s","/","{","}">>
PathItems == <<"/","i","t","e","m","s">>
PathPing == <<"/","p","i","n","g">>
PathRegistry == <<"/","r","e","g","i","s","t","r","y">>
StrPlain == <<"o","k">>
StrLocalHttp == <<"h","t","t","p",":","/","/","l","o","c","a","l","h","o","s","t",":","3","0","0","0","/","f","o","o">>
StrLocalHttps == <<"h","t","t","p","s",":","/","/","l","o","c","a","l","h","o","s","t",":","8","4","4","3","/","b","a","r">>
StrLocalTwice == <<"h","t","t","p",":","/","/","l","o","c","a","l","h","o","s","t",":","8","/","a",",","h","t","t","p","s",":","/","/","l","o","c","a","l","h","o","s","t",":","9","0","/","b">>
StrNoPort == <<"h","t","t","p",":","/","/","l","o","c","a","l","h","o","s","t","/","f","o","o">>
HttpWord == <<"h","t","t","p">>
LocalhostWord == <<":","/","/","l","o","c","a","l","h","o","s","t",":">>
Digits == {"0","1","2","3","4","5","6","7","8","9"}

\* config.endpoints.local: the configured endpoint that replaces local urls.
EndpointsLocal == <<"h","t","t","p",":","/","/","o","c","c",".","l","o","c","a","l","/">>

\* The static list static/webMIMETypes.json read at load time.
webMIMETypes == {"application/json", "text/html", "text/plain"}

\* pat occurs in s starting at index i.
MatchAt(s, pat, i) ==
  /\ i >= 1
  /\ i + Len(pat) - 1 <= Len(s)
  /\ \A k \in 1..Len(pat) : s[i + k - 1] = pat[k]

\* String.prototype.indexOf, 1-based; 0 when pat does not occur.
IndexOf(s, pat) ==
  LET hits == {i \in 1..(Len(s) + 1) : MatchAt(s, pat, i)}
  IN  IF hits = {} THEN 0 ELSE CHOOSE i \in hits : \A j \in hits : i <= j

\* RegExp.prototype.test for a pattern that is a literal text.
RegExpTest(pat, s) == IndexOf(s, pat) # 0

\* String.prototype.replace(pat, rep) with a string pattern: the first
\* occurrence only.
Replace(s, pat, rep) ==
  LET i == IndexOf(s, pat)
  IN  IF i = 0 THEN s
      ELSE SubSeq(s, 1, i - 1) \o rep \o SubSeq(s, i + Len(pat), Len(s))

\* Index just past the digits that start at i.
RECURSIVE SkipDigits(_, _)
SkipDigits(s, i) ==
  IF i <= Len(s) /\ s[i] \in Digits THEN SkipDigits(s, i + 1) ELSE i

\* /https?:\/\/localhost:[0-9]+?\// matched at index i: the index just past
\* the match, 0 when there is no match at i.
LocalUrlMatchEnd(s, i) ==
  IF ~MatchAt(s, HttpWord, i) THEN 0
  ELSE LET j == IF i + 4 <= Len(s) /\ s[i + 4] = "s"
                   /\ MatchAt(s, LocalhostWord, i + 5)
                THEN i + 5
                ELSE i + 4
       IN  IF ~MatchAt(s, LocalhostWord, j) THEN 0
           ELSE LET d == j + Len(LocalhostWord)
                    e == SkipDigits(s, d)
                IN  IF e > d /\ e <= Len(s) /\ s[e] = "/" THEN e + 1 ELSE 0

\* s.replace(/https?:\/\/localhost:[0-9]+?\//g, rep), scanning from index i.
RECURSIVE ReplaceLocalFrom(_, _, _)
ReplaceLocalFrom(s, i, rep) ==
  IF i > Len(s) THEN <<>>
  ELSE LET e == LocalUrlMatchEnd(s, i)
       IN  IF e # 0 THEN rep \o ReplaceLocalFrom(s, e, rep)
           ELSE <<s[i]>> \o ReplaceLocalFrom(s, i + 1, rep)

\* The same replace without the g flag: the first match only.
ReplaceLocalUrlsOnce(s) ==
  LET hits == {i \in 1..Len(s) : LocalUrlMatchEnd(s, i) # 0}
  IN  IF hits = {} THEN s
      ELSE LET i == CHOOSE i \in hits : \A j \in hits : i <= j
           IN  SubSeq(s, 1, i - 1) \o EndpointsLocal
                 \o SubSeq(s, LocalUrlMatchEnd(s, i), Len(s))
ReplaceLocalUrls(s) == ReplaceLocalFrom(s, 1, EndpointsLocal)

\* String.prototype.toLowerCase on the method names of the registry.
ToLowerCase(m) ==
  CASE m = "GET" -> "get"
    [] m = "POST" -> "post"
    [] OTHER -> m

\* ------------------------------------------------------------- JSON values
\* A JSON value as the code distinguishes them: its type, and the one text
\* it carries (the string itself, or the string property of an object).
JNull == [t |-> "null", s |-> <<>>]
JZero == [t |-> "zero", s |-> <<>>]
JText(str) == [t |-> "string", s |-> str]
JLink(str) == [t |-> "object", s |-> str]
JEmptyObject == [t |-> "emptyObject", s |-> <<>>]
JSample == [t |-> "sampleTrue", s |-> <<>>]
JUndefined == [t |-> "undefined", s |-> <<>>]
JStatus404 == [t |-> "status404", s |-> <<>>]
JStatus404Number == [t |-> "status404Number", s |-> <<>>]

\* JavaScript truthiness, as tested by if(responseData).
Truthy(v) ==
  /\ v.t \notin {"null", "undefined", "zero"}
  /\ ~(v.t = "string" /\ v.s = <<>>)

\* parsedBody.status === '404'
HasStatus404(v) == v.t = "status404"

\* An entry of the registry's endpointMap, under its key.
Entry(key, method, url) ==
  [key |-> key, id |-> key, method |-> method, url |-> url]

\* The registry document: its endpointMap, in key order, and a text.
RegistryDoc(entries, link) ==
  [t |-> "registry", hasEndpointMap |-> TRUE, endpointMap |-> entries, s |-> link]

\* A document without the attributes grab() reads.
BareDoc ==
  [t |-> "bare", s |-> <<>>,
   hasEndpointMap |-> FALSE, endpointMap |-> <<>>,
   hasBasePath |-> FALSE, basePath |-> <<>>,
   hasPaths |-> FALSE, paths |-> <<>>,
   hasDefinitions |-> FALSE, definitions |-> <<>>]

\* One media type of a response's examples.
Example(mime, v) == [mime |-> mime, value |-> v]

\* One status code of an operation's responses.
Response(code, examples) ==
  [code |-> code, hasExamples |-> TRUE, examples |-> examples]
ResponseNoExamples(code) ==
  [code |-> code, hasExamples |-> FALSE, examples |-> <<>>]

\* An operation of the schema; responses is in Object.keys order.
\* responsesKind tells what the responses attribute holds: the map of status
\* codes, or (after line 184) the relative path of the fixture directory.
Operation(id, responses) ==
  [summary |-> id, operationId |-> id, produces |-> <<"application/json">>,
   parameters |-> <<"q">>,
   responsesKind |-> "map", responses |-> responses, responsesPath |-> <<>>]

\* One method of a path, and one path of the schema.
Method(name, op) == [method |-> name, op |-> op]
PathItem(key, methods) == [key |-> key, methods |-> methods]

\* The schema document.
SchemaDoc(basePath, paths, definitions) ==
  [t |-> "schema", s |-> <<>>,
   hasBasePath |-> TRUE, basePath |-> basePath,
   hasPaths |-> TRUE, paths |-> paths,
   hasDefinitions |-> TRUE, definitions |-> definitions]

\* JSON.stringify(data, null, 2), the replace of line 175 and JSON.parse:
\* every text of the value is rewritten.
RewriteEntry(e) == [e EXCEPT !.url = ReplaceLocalUrls(@)]
RewriteLocal(v) ==
  IF v.t = "registry"
  THEN [v EXCEPT !.s = ReplaceLocalUrls(@),
                 !.endpointMap = [i \in DOMAIN @ |-> RewriteEntry(@[i])]]
  ELSE [v EXCEPT !.s = ReplaceLocalUrls(@)]

\* ---------------------------------------------------------- remote fetcher
\* What the transport hands to the callback of request().
TransportError == [error |-> TRUE, json |-> FALSE, value |-> JUndefined]
NotJSON == [error |-> FALSE, json |-> FALSE, value |-> JUndefined]
Body(v) == [error |-> FALSE, json |-> TRUE, value |-> v]

Rejected(err) == [ok |-> FALSE, error |-> err, response |-> NotJSON]
Resolved(resp) == [ok |-> TRUE, error |-> [name |-> "none"], response |-> resp]

\* makeRequest(url): how the promise settles for the transport's answer.
MakeRequest(resp) ==
  IF resp.error THEN Rejected([name |-> "TransportError"])
  ELSE IF ~resp.json THEN Rejected([name |-> "SyntaxError"])
  ELSE IF resp.value.t = "null" THEN Rejected([name |-> "TypeError"])
  ELSE IF HasStatus404(resp.value)
       THEN Rejected([name |-> "NotFoundBody", body |-> resp.value])
       ELSE Resolved(resp)

\* ------------------------------------------------------------------ inputs
\* Example values a schema or a sample response may carry.
ExampleValues ==
  {JLink(StrPlain), JLink(StrLocalHttp), JLink(StrLocalTwice), JText(StrNoPort),
   JEmptyObject, JNull, JZero}

\* Responses maps of a schema operation, keys in Object.keys order.
JsonOnly(v) == <<Response("200", <<Example("application/json", v)>>)>>
ResponsesChoices ==
  {JsonOnly(v) : v \in ExampleValues}
  \cup
  { <<ResponseNoExamples("200")>>,
    <<Response("200", <<Example("application/json", JLink(StrPlain))>>),
      Response("404", <<Example("x/unknown", JText(StrPlain))>>)>>,
    <<Response("200", <<Example("application/json", JLink(StrPlain))>>),
      Response("404", <<Example("application/json", JLink(StrLocalHttps))>>)>>,
    <<Response("200", <<Example("text/html", JText(StrPlain)),
                        Example("application/json", JLink(StrPlain))>>),
      ResponseNoExamples("default")>>,
    <<Response("200", <<Example("x/unknown", JText(StrLocalHttp)),
                        Example("text/plain", JText(StrPlain))>>)>>,
    <<ResponseNoExamples("default")>> }

DefaultResponses == JsonOnly(JLink(StrPlain))

\* The paths of the fetched schema.
PathsChoices ==
  {<<>>}
  \cup
  {<<PathItem(PathItems, <<Method("get", Operation("listItems", r))>>)>> :
     r \in ResponsesChoices}
  \cup
  {<<PathItem(PathRegistry, <<Method("get", Operation("getRegistry", r))>>)>> :
     r \in {JsonOnly(v) : v \in ExampleValues}}
  \cup
  { <<PathItem(PathItems,
        <<Method("get", Operation("listItems", DefaultResponses)),
          Method("post", Operation("createItem", DefaultResponses))>>)>>,
    <<PathItem(PathPing,
        <<Method("post", Operation("postPing", DefaultResponses))>>)>>,
    <<PathItem(PathItems,
        <<Method("get", Operation("listItems", DefaultResponses))>>),
      PathItem(PathPing,
        <<Method("post", Operation("postPing", DefaultResponses))>>)>>,
    <<PathItem(PathItems,
        <<Method("get", [Operation("listItems", <<>>)
                           EXCEPT !.responsesKind = "undefined"])>>)>> }

\* The definitions of the fetched schema, in key order.
DefinitionsChoices ==
  { <<>>,
    <<[name |-> "Item", value |-> JLink(StrPlain)]>>,
    <<[name |-> "Item", value |-> JLink(StrPlain)],
      [name |-> "Error", value |-> JEmptyObject]>>,
    <<[name |-> "Link", value |-> JLink(StrLocalHttp)],
      [name |-> "Item", value |-> JNull]>> }

BasePathChoices == {BaseAdmin, BaseStore, BaseAdminUi, BaseVersion}

DefaultPaths ==
  <<PathItem(PathItems,
      <<Method("get", Operation("listItems", DefaultResponses))>>)>>
DefaultDefinitions == <<[name |-> "Item", value |-> JLink(StrPlain)]>>

\* Bodies the schema endpoint may answer with that parse and carry no 404.
SchemaDocs ==
  {SchemaDoc(BaseAdmin, p, DefaultDefinitions) : p \in PathsChoices}
  \cup {SchemaDoc(b, DefaultPaths, DefaultDefinitions) : b \in BasePathChoices}
  \cup {SchemaDoc(BaseAdmin, DefaultPaths, d) : d \in DefinitionsChoices}
  \cup {[SchemaDoc(BaseAdmin, DefaultPaths, <<>>) EXCEPT !.hasDefinitions = FALSE],
        BareDoc}

\* Entries a registry may list.
RegistryEntries ==
  { Entry("getPing", "GET", UrlPing),
    Entry("postPing", "POST", UrlPing),
    Entry("listItems", "GET", UrlItems),
    Entry("getItem", "GET", UrlItem),
    Entry("getRegistry", "GET", UrlRegistry) }

\* The endpointMaps of at most n entries, keys distinct, in every key order.
RECURSIVE EndpointMaps(_)
EndpointMaps(n) ==
  IF n = 0 THEN {<<>>}
  ELSE LET shorter == EndpointMaps(n - 1)
       IN  shorter \cup
           {Append(m, e) : m \in {x \in shorter : Len(x) = n - 1},
                           e \in RegistryEntries}

DistinctKeys(m) == \A i, j \in DOMAIN m : i # j => m[i].key # m[j].key

RegistryDocs ==
  {RegistryDoc(m, StrPlain) :
     m \in {x \in EndpointMaps(MaxRegistry) : DistinctKeys(x)}}
  \cup
  {RegistryDoc(<<e>>, StrLocalHttp) : e \in RegistryEntries}
  \cup
  { RegistryDoc(<<Entry("getOrder", "GET", UrlOrder)>>, StrPlain),
    RegistryDoc(<<Entry("getItem", "GET", UrlItem),
                  Entry("getOrder", "GET", UrlOrder)>>, StrPlain) }
  \cup {BareDoc}

\* The registries tried against every schema, and the schemas tried against
\* every registry.
FewRegistryDocs ==
  { RegistryDoc(<<>>, StrPlain),
    RegistryDoc(<<Entry("getPing", "GET", UrlPing)>>, StrPlain),
    RegistryDoc(<<Entry("getRegistry", "GET", UrlRegistry)>>, StrLocalHttp),
    BareDoc }
PingPaths ==
  <<PathItem(PathPing,
      <<Method("post", Operation("postPing", DefaultResponses))>>)>>
KeySchemaDocs ==
  { SchemaDoc(BaseAdmin, DefaultPaths, DefaultDefinitions),
    SchemaDoc(BaseAdmin, PingPaths, DefaultDefinitions),
    SchemaDoc(BaseAdmin, <<>>, DefaultDefinitions) }
RegistryDocsFor(schema) ==
  IF schema \in KeySchemaDocs THEN RegistryDocs ELSE FewRegistryDocs

\* What the transport may answer to a top-level fetch, and to a sample fetch.
Failures == {TransportError, NotJSON, Body(JNull), Body(JStatus404)}
SchemaAnswers == Failures \cup {Body(d) : d \in SchemaDocs}
RegistryAnswers(schema) == Failures \cup {Body(d) : d \in RegistryDocsFor(schema)}
SampleAnswers(url) ==
  IF url = UrlPing
  THEN {TransportError, NotJSON, Body(JStatus404)}
       \cup {Body(v) : v \in {JLink(StrPlain), JLink(StrLocalHttp), JZero,
                              JStatus404Number}}
  ELSE IF url = UrlRegistry
  THEN {TransportError, Body(JLink(StrPlain)), Body(JLink(StrLocalHttp))}
  ELSE {NotJSON, Body(JLink(StrPlain))}

\* -------------------------------------------------------------- file system
\* Paths are relative to apiPath (config.dir.instanceDefinitions.oracleApi).
apiPath == <<>>
responsesPath == apiPath \o <<"responses">>
definitionsPath == apiPath \o <<"definitions">>
schemaPath == apiPath \o <<"schema.json">>

Dir == [kind |-> "dir"]
File(content) == [kind |-> "file", content |-> content]
EmptyMap == [x \in {} |-> x]

\* The directory itself and the directories above it.
Prefixes(path) == {SubSeq(path, 1, n) : n \in 1..Len(path)}

\* fs.ensureDir / fs.ensureDirSync: the directory and its parents exist.
EnsureDir(f, path) ==
  [q \in DOMAIN f \cup Prefixes(path) |->
     IF q \in Prefixes(path) THEN Dir ELSE f[q]]

\* fs.outputJSON: parents are created, the file is replaced wholesale.
OutputJSONAppending(f, path, content) ==
  LET g == EnsureDir(f, SubSeq(path, 1, Len(path) - 1))
  IN  [q \in DOMAIN g \cup {path} |->
         IF q # path THEN g[q]
         ELSE IF path \in DOMAIN f
              THEN [kind |-> "file", content |-> content, appendedTo |-> f[path]]
              ELSE File(content)]
OutputJSON(f, path, content) ==
  LET g == EnsureDir(f, SubSeq(path, 1, Len(path) - 1))
  IN  [q \in DOMAIN g \cup {path} |-> IF q = path THEN File(content) ELSE g[q]]

\* Length of the longest common prefix of two paths.
RECURSIVE CommonPrefix(_, _, _)
CommonPrefix(a, b, n) ==
  IF n < Len(a) /\ n < Len(b) /\ a[n + 1] = b[n + 1]
  THEN CommonPrefix(a, b, n + 1)
  ELSE n

\* path.relative(from, to)
PathRelative(from, to) ==
  LET c == CommonPrefix(from, to, 0)
  IN  [i \in 1..(Len(from) - c) |-> ".."] \o SubSeq(to, c + 1, Len(to))

\* path.join(dir, name) resolved against the directory dir.
PathJoin(dir, rel) == dir \o rel

\* ------------------------------------------------------- helpers of grab()
\* Lines 65-67: the base path, rewritten unless it already holds "ui".
NormalizeBasePathAlways(basePath) ==
  Replace(Replace(basePath, CcAdmin, CcAdminUi), CcStore, CcStoreUi)
NormalizeBasePath(basePath) ==
  IF ~RegExpTest(UiMarker, basePath)
  THEN Replace(Replace(basePath, CcAdmin, CcAdminUi), CcStore, CcStoreUi)
  ELSE basePath

\* The operations of the paths in iteration order: path index, method index.
RECURSIVE OperationsFrom(_, _)
OperationsFrom(paths, p) ==
  IF p > Len(paths) THEN <<>>
  ELSE [m \in 1..Len(paths[p].methods) |-> [p |-> p, m |-> m]]
       \o OperationsFrom(paths, p + 1)
Operations(paths) == OperationsFrom(paths, 1)

OperationAt(paths, o) == paths[Operations(paths)[o].p].methods[Operations(paths)[o].m].op
MethodAt(paths, o) == paths[Operations(paths)[o].p].methods[Operations(paths)[o].m].method

\* Lines 69-75: the operationId of every method of every path.
CollectIds(paths) ==
  [o \in 1..Len(Operations(paths)) |-> OperationAt(paths, o).operationId]

\* Array.prototype.includes
Includes(seq, x) == \E i \in DOMAIN seq : seq[i] = x

\* Line 87: the guard of the sample fetch.
NeedsSampleAnyUrl(method, url) == method = "get"
NeedsSample(method, url) == method = "get" /\ ~RegExpTest(EmptyBraces, url)

\* Lines 86-91: the sample of an entry from the settled request; a rejection
\* is caught and leaves the empty object.
SampleResponseUncaught(settled) ==
  IF settled.ok
  THEN [thrown |-> FALSE, error |-> settled.error, sample |-> settled.response.value]
  ELSE [thrown |-> TRUE, error |-> settled.error, sample |-> JEmptyObject]
SampleResponse(settled) ==
  [thrown |-> FALSE,
   error |-> [name |-> "none"],
   sample |-> IF settled.ok THEN settled.response.value ELSE JEmptyObject]

\* Lines 94-105: the operation synthesized for a registry entry.
SynthesizedOperation(entry, sample) ==
  [summary |-> entry.id, operationId |-> entry.id,
   produces |-> <<"application/json">>, parameters |-> <<>>,
   responsesKind |-> "map",
   responses |-> <<Response("200", <<Example("application/json", sample)>>)>>,
   responsesPath |-> <<>>]

\* Line 93: the path key of an entry.
PathKey(url) == Replace(url, ApiPrefix, <<>>)

\* Line 93: schemaPaths[key] = {[method]: operation}.  An existing key keeps
\* its place in the key order and loses what it held.
SetPath(paths, key, method, op) ==
  IF \E i \in DOMAIN paths : paths[i].key = key
  THEN LET i == CHOOSE i \in DOMAIN paths : paths[i].key = key
       IN  [paths EXCEPT ![i].methods = <<Method(method, op)>>]
  ELSE Append(paths, PathItem(key, <<Method(method, op)>>))

\* Lines 149-153: the examples of a status code, with the placeholder.
ExamplesOf(response) ==
  IF response.hasExamples THEN response.examples
  ELSE <<Example("application/json", JSample)>>

\* Lines 155-163: the content type of the fixture.
ContentType(examples) ==
  LET contentTypeList == [i \in DOMAIN examples |-> examples[i].mime]
      foundValidMIMEType ==
        \E i \in DOMAIN contentTypeList : contentTypeList[i] \in webMIMETypes
  IN  IF foundValidMIMEType THEN contentTypeList[1] ELSE "application/json"

\* Line 164: examples[contentType], undefined when there is none.
ExampleFor(examples, contentType) ==
  IF \E i \in DOMAIN examples : examples[i].mime = contentType
  THEN examples[CHOOSE i \in DOMAIN examples : examples[i].mime = contentType].value
  ELSE JUndefined

\* Lines 166-169: the data of the fixture; the registry for getRegistry.
ResponseDataGeneric(requestId, responseData, registry) == responseData
ResponseData(requestId, responseData, registry) ==
  IF requestId = "getRegistry" THEN registry ELSE responseData

\* Lines 132-145 and 171: the descriptor of a status code.
Descriptor(op, method, statusCode, responsePath, dataPath, hasData, contentType) ==
  [allowedParameters |-> op.parameters,
   request |-> [queryParameters |-> <<>>, method |-> method,
                headers |-> <<>>, body |-> <<>>],
   response |-> [dataPath |-> PathRelative(responsePath, dataPath),
                 statusCode |-> statusCode,
                 headers |-> IF hasData
                             THEN <<[name |-> "content-type", value |-> contentType]>>
                             ELSE <<>>]]

\* ------------------------------------------------------------------- state
VARIABLES
  pc,                       \* the stage grab() is in
  action,                   \* the action the module function was called with
  run,                      \* number of dispatches so far
  remote,                   \* what the remote answered, per request made
  schemaRequestResponse,    \* line 55
  registryRequestResponse,  \* line 56
  schemaJSON,               \* line 58, mutated in place by the stages
  registryJSON,             \* line 59
  operationsIds,            \* line 69
  ei,                       \* index of the endpointMap key of the loop of line 78
  awaiting,                 \* the sample request of line 88 is outstanding
  pos,                      \* operation and status code of the loops of 111-186
  di,                       \* index of the definition of the loop of line 189
  fs,                       \* the files and directories under apiPath
  requests,                 \* urls requested in this run, in order
  writes,                   \* files written in this run, in order
  callbacks,                \* invocations of the callback in this run
  merged,                   \* schemaPaths when the loop of line 78 ended
  answered,                 \* number of the requests of this run that settled
  prevFs                    \* the files when this run was dispatched

vars ==
  <<pc, action, run, remote, schemaRequestResponse, registryRequestResponse,
    schemaJSON, registryJSON, operationsIds, ei, awaiting, pos, di, fs,
    requests, writes, callbacks, merged, answered, prevFs>>

Actions == {"grab", "deploy"}

\* The urls of lines 19 and 20, without config.endpoints.dns.
schemaURL == <<"schemaURL">>
registryEndpoint == <<"registryEndpoint">>

\* The answers the remote may give to a request: what it answered before to
\* the same request, when it did.
AnswersTo(key, fresh) ==
  IF key \in DOMAIN remote THEN {remote[key]} ELSE fresh

Remember(key, resp) == (key :> resp) @@ remote

\* Invocations of the callback.
CallbackNoArgs == [argc |-> 0, error |-> [name |-> "undefined"]]
CallbackResultOnly == [argc |-> 1, error |-> [name |-> "undefined"]]
CallbackResult == [argc |-> 2, error |-> [name |-> "null"]]
CallbackError(err) == [argc |-> 1, error |-> err]
CallbackThrew == [name |-> "CallbackThrew"]

\* Lines 208-219: the callback is called inside the try, so what it throws
\* reaches the catch, which calls it again with what was thrown.
Invoke(first, throws) ==
  IF throws THEN <<first, CallbackError(CallbackThrew)>> ELSE <<first>>

\* Line 55: the requests issued before grab() first suspends; the request
\* of line 56 is issued when that of line 55 has resolved.
IssuedInParallel == <<schemaURL, registryEndpoint>>
IssuedAtDispatch == <<schemaURL>>

Init ==
  /\ pc = "Idle"
  /\ action = "none"
  /\ run = 0
  /\ remote = EmptyMap
  /\ schemaRequestResponse = NotJSON
  /\ registryRequestResponse = NotJSON
  /\ schemaJSON = BareDoc
  /\ registryJSON = BareDoc
  /\ operationsIds = <<>>
  /\ ei = 0
  /\ awaiting = FALSE
  /\ pos = [o |-> 0, s |-> 0]
  /\ di = 0
  /\ fs = EmptyMap
  /\ requests = <<>>
  /\ writes = <<>>
  /\ callbacks = <<>>
  /\ merged = <<>>
  /\ answered = 0
  /\ prevFs = EmptyMap

\* Lines 198-200 and 216-219: grab() rejects, the catch of the module
\* function hands the error to the callback.
FailSilently(err) ==
  /\ pc' = "Failed"
  /\ callbacks' = callbacks
FailResolves(err) ==
  /\ pc' = "Done"
  /\ callbacks' = Append(callbacks, CallbackResult)
Fail(err) ==
  /\ pc' = "Failed"
  /\ callbacks' = Append(callbacks, CallbackError(err))

\* Lines 205-215: the module function is called.  "grab" constructs the
\* ApiSchema and issues the request of line 55; every other action calls
\* back at once.
Dispatch ==
  /\ pc \in {"Idle", "Done"}
  /\ run < MaxRuns
  /\ \E a \in Actions, throws \in BOOLEAN :
       /\ action' = a
       /\ IF a = "grab"
          THEN /\ pc' = "FetchingSchema"
               /\ requests' = IssuedAtDispatch
               /\ callbacks' = <<>>
          ELSE /\ pc' = "Returned"
               /\ requests' = <<>>
               /\ callbacks' = Invoke(CallbackNoArgs, throws)
  /\ run' = run + 1
  /\ prevFs' = fs
  /\ schemaRequestResponse' = NotJSON
  /\ registryRequestResponse' = NotJSON
  /\ schemaJSON' = BareDoc
  /\ registryJSON' = BareDoc
  /\ operationsIds' = <<>>
  /\ ei' = 0
  /\ awaiting' = FALSE
  /\ pos' = [o |-> 0, s |-> 0]
  /\ di' = 0
  /\ writes' = <<>>
  /\ merged' = <<>>
  /\ answered' = 0
  /\ UNCHANGED <<remote, fs>>

\* Line 55: the schema request settles; line 56 issues the registry request.
SchemaSettled ==
  /\ pc = "FetchingSchema"
  /\ \E resp \in AnswersTo(schemaURL, SchemaAnswers) :
       LET settled == MakeRequest(resp)
       IN  /\ remote' = Remember(schemaURL, resp)
           /\ IF settled.ok
              THEN /\ schemaRequestResponse' = settled.response
                   /\ requests' = Append(requests, registryEndpoint)
                   /\ pc' = "FetchingRegistry"
                   /\ UNCHANGED callbacks
              ELSE /\ Fail(settled.error)
                   /\ UNCHANGED <<schemaRequestResponse, requests>>
  /\ answered' = answered + 1
  /\ UNCHANGED <<action, run, registryRequestResponse, schemaJSON,
                 registryJSON, operationsIds, ei, awaiting, pos, di, fs,
                 writes, merged, prevFs>>

\* Line 56: the registry request settles.
RegistrySettled ==
  /\ pc = "FetchingRegistry"
  /\ \E resp \in AnswersTo(registryEndpoint, RegistryAnswers(schemaRequestResponse.value)) :
       LET settled == MakeRequest(resp)
       IN  /\ remote' = Remember(registryEndpoint, resp)
           /\ IF settled.ok
              THEN /\ registryRequestResponse' = settled.response
                   /\ pc' = "Normalizing"
                   /\ UNCHANGED callbacks
              ELSE /\ Fail(settled.error)
                   /\ UNCHANGED registryRequestResponse
  /\ answered' = answered + 1
  /\ UNCHANGED <<action, run, schemaRequestResponse, schemaJSON,
                 registryJSON, operationsIds, ei, awaiting, pos, di, fs,
                 requests, writes, merged, prevFs>>

\* Lines 58-67: both bodies are parsed and the base path is rewritten.  A
\* schema without basePath throws at line 66.
Normalize ==
  /\ pc = "Normalizing"
  /\ LET schema == schemaRequestResponse.value
         registry == registryRequestResponse.value
     IN  IF schema.hasBasePath
         THEN /\ schemaJSON' =
                   [schema EXCEPT !.basePath = NormalizeBasePath(@)]
              /\ registryJSON' = registry
              /\ pc' = "Merging"
              /\ UNCHANGED callbacks
         ELSE /\ Fail([name |-> "TypeError"])
              /\ UNCHANGED <<schemaJSON, registryJSON>>
  /\ UNCHANGED answered
  /\ UNCHANGED <<action, run, remote, schemaRequestResponse,
                 registryRequestResponse, operationsIds, ei, awaiting, pos,
                 di, fs, requests, writes, merged, prevFs>>

\* Lines 69-78: the operation ids are collected and the keys of the
\* endpointMap are read.  A schema without paths throws at line 71, a
\* registry without endpointMap at line 78.
CollectOperationIds ==
  /\ pc = "Merging"
  /\ ei = 0
  /\ IF schemaJSON.hasPaths /\ registryJSON.hasEndpointMap
     THEN /\ operationsIds' = CollectIds(schemaJSON.paths)
          /\ ei' = 1
          /\ UNCHANGED <<pc, callbacks>>
     ELSE /\ Fail([name |-> "TypeError"])
          /\ UNCHANGED <<operationsIds, ei>>
  /\ UNCHANGED answered
  /\ UNCHANGED <<action, run, remote, schemaRequestResponse,
                 registryRequestResponse, schemaJSON, registryJSON, awaiting,
                 pos, di, fs, requests, writes, merged, prevFs>>

\* Lines 93-106 for the entry the loop is at.
Insert(entry, sample) ==
  [schemaJSON EXCEPT !.paths =
     SetPath(@, PathKey(entry.url), ToLowerCase(entry.method),
             SynthesizedOperation(entry, sample))]

\* Lines 79-88 and 93-106: an entry of the endpointMap.  An entry whose key
\* is a known operation id is passed over; one that needs a sample has its
\* request issued; any other is inserted with the empty object.
MergeEntry ==
  /\ pc = "Merging"
  /\ ei \in 1..Len(registryJSON.endpointMap)
  /\ ~awaiting
  /\ LET endpointMapData == registryJSON.endpointMap[ei]
         method == ToLowerCase(endpointMapData.method)
     IN  IF Includes(operationsIds, endpointMapData.key)
         THEN /\ ei' = ei + 1
              /\ UNCHANGED <<schemaJSON, requests, awaiting>>
         ELSE IF NeedsSample(method, endpointMapData.url)
         THEN /\ requests' = Append(requests, endpointMapData.url)
              /\ awaiting' = TRUE
              /\ UNCHANGED <<schemaJSON, ei>>
         ELSE /\ schemaJSON' = Insert(endpointMapData, JEmptyObject)
              /\ ei' = ei + 1
              /\ UNCHANGED <<requests, awaiting>>
  /\ UNCHANGED answered
  /\ UNCHANGED <<pc, action, run, remote, schemaRequestResponse,
                 registryRequestResponse, registryJSON, operationsIds, pos,
                 di, fs, writes, callbacks, merged, prevFs>>

\* Lines 88-106: the sample request settles and the entry is inserted.
SampleSettled ==
  /\ pc = "Merging"
  /\ awaiting
  /\ LET endpointMapData == registryJSON.endpointMap[ei]
     IN  \E resp \in AnswersTo(endpointMapData.url, SampleAnswers(endpointMapData.url)) :
           LET got == SampleResponse(MakeRequest(resp))
           IN  /\ remote' = Remember(endpointMapData.url, resp)
               /\ IF got.thrown
                  THEN /\ Fail(got.error)
                       /\ UNCHANGED <<schemaJSON, ei>>
                  ELSE /\ schemaJSON' = Insert(endpointMapData, got.sample)
                       /\ ei' = ei + 1
                       /\ UNCHANGED <<pc, callbacks>>
  /\ awaiting' = FALSE
  /\ answered' = answered + 1
  /\ UNCHANGED <<action, run, schemaRequestResponse, registryRequestResponse,
                 registryJSON, operationsIds, pos, di, fs, requests,
                 writes, merged, prevFs>>

\* Line 108: the loop over the endpointMap ends.
ExitMerging ==
  /\ pc = "Merging"
  /\ ei = Len(registryJSON.endpointMap) + 1
  /\ ~awaiting
  /\ pc' = "MaterializingFixtures"
  /\ merged' = schemaJSON.paths
  /\ pos' = [o |-> 1, s |-> 0]
  /\ UNCHANGED answered
  /\ UNCHANGED <<action, run, remote, schemaRequestResponse,
                 registryRequestResponse, schemaJSON, registryJSON,
                 operationsIds, ei, awaiting, di, fs, requests,
                 writes, callbacks, prevFs>>

\* A file-system operation may fail.
MayFail == TRUE
FileSystemError == [name |-> "FileSystemError"]

\* Lines 115-120: an operation is entered and its directory ensured.  An
\* operation without responses throws at line 122.
EnterOperation ==
  /\ pc = "MaterializingFixtures"
  /\ pos.o \in 1..Len(Operations(schemaJSON.paths))
  /\ pos.s = 0
  /\ LET requestData == OperationAt(schemaJSON.paths, pos.o)
         responseMethodPath == PathJoin(responsesPath, <<requestData.operationId>>)
     IN  \/ /\ fs' = EnsureDir(fs, responseMethodPath)
            /\ IF requestData.responsesKind = "map"
               THEN /\ pos' = [pos EXCEPT !.s = 1]
                    /\ UNCHANGED <<pc, callbacks>>
               ELSE /\ Fail([name |-> "TypeError"])
                    /\ UNCHANGED pos
         \/ /\ MayFail
            /\ Fail(FileSystemError)
            /\ UNCHANGED <<fs, pos>>
  /\ UNCHANGED answered
  /\ UNCHANGED <<action, run, remote, schemaRequestResponse,
                 registryRequestResponse, schemaJSON, registryJSON,
                 operationsIds, ei, awaiting, di, requests, writes, merged,
                 prevFs>>

\* Lines 122-182 for one status code of the operation.  "default" is passed
\* over.  The three awaited file-system operations (ensureDir at 147,
\* outputJSON at 178 and at 181) run in this order; the first that fails
\* rejects grab().
MaterializeStatus ==
  /\ pc = "MaterializingFixtures"
  /\ pos.o \in 1..Len(Operations(schemaJSON.paths))
  /\ LET at == Operations(schemaJSON.paths)[pos.o]
         requestData == OperationAt(schemaJSON.paths, pos.o)
         method == MethodAt(schemaJSON.paths, pos.o)
         responses == requestData.responses
         requestId == requestData.operationId
         responseMethodPath == PathJoin(responsesPath, <<requestId>>)
     IN  /\ requestData.responsesKind = "map"
         /\ pos.s \in 1..Len(responses)
         /\ LET statusCode == responses[pos.s].code
                responsePath == PathJoin(responseMethodPath, <<"default">>)
                dataDescriptorPath == PathJoin(responsePath, <<"descriptor.json">>)
                dataPath == PathJoin(responsePath, <<"data.json">>)
                examples == ExamplesOf(responses[pos.s])
                contentType == ContentType(examples)
                responseData == ExampleFor(examples, contentType)
                hasData == Truthy(responseData)
                data == RewriteLocal(ResponseData(requestId, responseData, registryJSON))
                descriptor == Descriptor(requestData, method, statusCode,
                                         responsePath, dataPath, hasData, contentType)
                ensured == EnsureDir(fs, responsePath)
                withData == IF hasData THEN OutputJSON(ensured, dataPath, data)
                            ELSE ensured
                withExamples ==
                  [schemaJSON EXCEPT
                     !.paths[at.p].methods[at.m].op.responses[pos.s] =
                        [@ EXCEPT !.hasExamples = TRUE, !.examples = examples]]
            IN  IF statusCode = "default"
                THEN /\ pos' = [pos EXCEPT !.s = @ + 1]
                     /\ UNCHANGED <<pc, schemaJSON, fs, writes, callbacks>>
                ELSE \/ /\ fs' = OutputJSON(withData, dataDescriptorPath, descriptor)
                        /\ writes' = writes
                                     \o (IF hasData THEN <<dataPath>> ELSE <<>>)
                                     \o <<dataDescriptorPath>>
                        /\ schemaJSON' = withExamples
                        /\ pos' = [pos EXCEPT !.s = @ + 1]
                        /\ UNCHANGED <<pc, callbacks>>
                     \/ /\ MayFail
                        /\ Fail(FileSystemError)
                        /\ \/ /\ fs' = fs
                              /\ writes' = writes
                              /\ schemaJSON' = schemaJSON
                           \/ /\ hasData
                              /\ fs' = ensured
                              /\ writes' = writes
                              /\ schemaJSON' = withExamples
                           \/ /\ fs' = withData
                              /\ writes' = writes
                                           \o (IF hasData THEN <<dataPath>> ELSE <<>>)
                              /\ schemaJSON' = withExamples
                        /\ UNCHANGED pos
  /\ UNCHANGED answered
  /\ UNCHANGED <<action, run, remote, schemaRequestResponse,
                 registryRequestResponse, registryJSON, operationsIds, ei,
                 awaiting, di, requests, merged, prevFs>>

\* Line 184: the responses of the operation become the relative path of its
\* fixture directory, and the loops go on to the next operation.
LeaveOperation ==
  /\ pc = "MaterializingFixtures"
  /\ pos.o \in 1..Len(Operations(schemaJSON.paths))
  /\ LET at == Operations(schemaJSON.paths)[pos.o]
         requestData == OperationAt(schemaJSON.paths, pos.o)
         responseMethodPath == PathJoin(responsesPath, <<requestData.operationId>>)
     IN  /\ requestData.responsesKind = "map"
         /\ pos.s = Len(requestData.responses) + 1
         /\ schemaJSON' =
              [schemaJSON EXCEPT !.paths[at.p].methods[at.m].op =
                 [@ EXCEPT !.responsesKind = "path",
                           !.responses = <<>>,
                           !.responsesPath = PathRelative(apiPath, responseMethodPath)]]
  /\ pos' = [o |-> pos.o + 1, s |-> 0]
  /\ UNCHANGED answered
  /\ UNCHANGED <<pc, action, run, remote, schemaRequestResponse,
                 registryRequestResponse, registryJSON, operationsIds, ei,
                 awaiting, di, fs, requests, writes, callbacks,
                 merged, prevFs>>

\* Line 186: the loops over the paths end.
ExitMaterializing ==
  /\ pc = "MaterializingFixtures"
  /\ pos.o = Len(Operations(schemaJSON.paths)) + 1
  /\ pc' = "ExtractingDefinitions"
  /\ di' = 0
  /\ UNCHANGED answered
  /\ UNCHANGED <<action, run, remote, schemaRequestResponse,
                 registryRequestResponse, schemaJSON, registryJSON,
                 operationsIds, ei, awaiting, pos, fs, requests,
                 writes, callbacks, merged, prevFs>>

\* Line 189: the names of the definitions are read.  A schema without
\* definitions throws here.
StartExtracting ==
  /\ pc = "ExtractingDefinitions"
  /\ di = 0
  /\ IF schemaJSON.hasDefinitions
     THEN /\ di' = 1
          /\ UNCHANGED <<pc, callbacks>>
     ELSE /\ Fail([name |-> "TypeError"])
          /\ UNCHANGED di
  /\ UNCHANGED answered
  /\ UNCHANGED <<action, run, remote, schemaRequestResponse,
                 registryRequestResponse, schemaJSON, registryJSON,
                 operationsIds, ei, awaiting, pos, fs, requests,
                 writes, merged, prevFs>>

\* Lines 190-191: one definition is written to its own file.
ExtractDefinition ==
  /\ pc = "ExtractingDefinitions"
  /\ di \in 1..Len(schemaJSON.definitions)
  /\ LET schemaDefinitionPath == schemaJSON.definitions[di].name
         definitionPath == PathJoin(definitionsPath, <<schemaDefinitionPath>>)
     IN  \/ /\ fs' = OutputJSON(fs, definitionPath, schemaJSON.definitions[di].value)
            /\ writes' = Append(writes, definitionPath)
            /\ di' = di + 1
            /\ UNCHANGED <<pc, callbacks>>
         \/ /\ MayFail
            /\ Fail(FileSystemError)
            /\ UNCHANGED <<fs, writes, di>>
  /\ UNCHANGED answered
  /\ UNCHANGED <<action, run, remote, schemaRequestResponse,
                 registryRequestResponse, schemaJSON, registryJSON,
                 operationsIds, ei, awaiting, pos, requests, merged, prevFs>>

\* The end of the loop of line 189 without the delete of line 193.
DeleteDefinitionsSkipped ==
  /\ pc = "ExtractingDefinitions"
  /\ di = Len(schemaJSON.definitions) + 1
  /\ pc' = "PersistingSchema"
  /\ UNCHANGED answered
  /\ UNCHANGED <<action, run, remote, schemaRequestResponse,
                 registryRequestResponse, schemaJSON, registryJSON,
                 operationsIds, ei, awaiting, pos, di, fs, requests, writes,
                 callbacks, merged, prevFs>>

\* Line 193: the definitions are deleted from the document.
DeleteDefinitions ==
  /\ pc = "ExtractingDefinitions"
  /\ di = Len(schemaJSON.definitions) + 1
  /\ schemaJSON' = [schemaJSON EXCEPT !.hasDefinitions = FALSE,
                                      !.definitions = <<>>]
  /\ pc' = "PersistingSchema"
  /\ UNCHANGED answered
  /\ UNCHANGED <<action, run, remote, schemaRequestResponse,
                 registryRequestResponse, registryJSON, operationsIds, ei,
                 awaiting, pos, di, fs, requests, writes, callbacks,
                 merged, prevFs>>

\* Lines 195-197 and 211: the document is written, grab() resolves and the
\* callback is called with a null error.
PersistSchema ==
  /\ pc = "PersistingSchema"
  /\ \/ /\ fs' = OutputJSON(fs, schemaPath, schemaJSON)
        /\ writes' = Append(writes, schemaPath)
        /\ pc' = "Done"
        /\ \E throws \in BOOLEAN :
             callbacks' = callbacks \o Invoke(CallbackResult, throws)
     \/ /\ MayFail
        /\ Fail(FileSystemError)
        /\ UNCHANGED <<fs, writes>>
  /\ UNCHANGED answered
  /\ UNCHANGED <<action, run, remote, schemaRequestResponse,
                 registryRequestResponse, schemaJSON, registryJSON,
                 operationsIds, ei, awaiting, pos, di, requests, merged,
                 prevFs>>

Next ==
  \/ Dispatch
  \/ SchemaSettled
  \/ RegistrySettled
  \/ Normalize
  \/ CollectOperationIds
  \/ MergeEntry
  \/ SampleSettled
  \/ ExitMerging
  \/ EnterOperation
  \/ MaterializeStatus
  \/ LeaveOperation
  \/ ExitMaterializing
  \/ StartExtracting
  \/ ExtractDefinition
  \/ DeleteDefinitions
  \/ PersistSchema

Spec == Init /\ [][Next]_vars

\* ================================================================== claims
\* Vocabulary of the claims, stated without the operators of the model.

\* A fetch fails, as the specification lists it: a transport error, a body
\* that is not valid JSON, or a body whose status is the string "404".
FetchFailed(resp) ==
  resp.error \/ ~resp.json \/ (resp.json /\ resp.value.t = "status404")

\* The stages after the merge of the registry.
MergeEnded ==
  pc \in {"MaterializingFixtures", "ExtractingDefinitions",
          "PersistingSchema", "Done"}

\* The operations of a paths map, each with its path key and method.
OperationsOf(paths) ==
  UNION {{[key |-> paths[p].key, method |-> paths[p].methods[m].method,
           op |-> paths[p].methods[m].op] : m \in DOMAIN paths[p].methods} :
         p \in DOMAIN paths}

\* The operation ids of a paths map.
IdsOf(paths) == {o.op.operationId : o \in OperationsOf(paths)}

\* The entries of the registry that was fetched.
RegistryEntriesFetched ==
  {registryJSON.endpointMap[i] : i \in DOMAIN registryJSON.endpointMap}

\* The files of the fixture of an operation.
FixtureDir(id) == <<"responses", id, "default">>
DataFile(id) == <<"responses", id, "default", "data.json">>
DescriptorFile(id) == <<"responses", id, "default", "descriptor.json">>

\* The response of a status code in a responses map, and whether the
\* example of its selected content type is sample content.
HasContent(response) ==
  Truthy(ExampleFor(ExamplesOf(response), ContentType(ExamplesOf(response))))
StatusHadContent(paths, id, method, statusCode) ==
  \E o \in OperationsOf(paths) :
    /\ o.op.operationId = id
    /\ o.method = method
    /\ o.op.responsesKind = "map"
    /\ \E i \in DOMAIN o.op.responses :
         /\ o.op.responses[i].code = statusCode
         /\ HasContent(o.op.responses[i])

\* C1 (existence coverage): once the merge has ended, every operationId of
\* the registry is the operationId of some (path, method) entry of the
\* schema's paths.
C1_ExistenceCoverage ==
  MergeEnded =>
    \A e \in RegistryEntriesFetched : e.key \in IdsOf(merged)

\* C2 (idempotence): when a run of grab() resolves after an earlier run
\* against the same remote answers has resolved, the files are those the
\* earlier run left.
C2_Idempotent ==
  (run >= 2 /\ action = "grab" /\ pc = "Done") => fs = prevFs

\* C2 witness: a second run has resolved and left fixtures, definitions and
\* the schema on disk.
C2_Witness ==
  /\ run = 2 /\ action = "grab" /\ pc = "Done"
  /\ schemaPath \in DOMAIN fs
  /\ DataFile("getPing") \in DOMAIN fs
  /\ DescriptorFile("listItems") \in DOMAIN fs
  /\ <<"definitions", "Item">> \in DOMAIN fs

\* C3 (dataPath resolves): after a resolved run, the dataPath of every
\* descriptor.json, resolved against the descriptor's directory, names an
\* existing file exactly when the operation and status code the descriptor
\* records had sample content for the selected content type.
C3_DataPathResolves ==
  pc = "Done" =>
    \A id \in IdsOf(merged) :
      DescriptorFile(id) \in DOMAIN fs =>
        LET descriptor == fs[DescriptorFile(id)].content
            target == PathJoin(FixtureDir(id), descriptor.response.dataPath)
        IN  (target \in DOMAIN fs)
              <=> StatusHadContent(merged, id, descriptor.request.method,
                                   descriptor.response.statusCode)

\* C4 as stated (registry special case): after a resolved run whose merged
\* schema holds getRegistry with a status code other than "default", the
\* data.json of getRegistry exists and equals the registry document fetched,
\* whatever the example and whatever the registry holds.
C4_RegistryDataEqualsRegistry ==
  (pc = "Done"
   /\ \E o \in OperationsOf(merged) :
        /\ o.op.operationId = "getRegistry"
        /\ \E i \in DOMAIN o.op.responses : o.op.responses[i].code # "default")
  => /\ DataFile("getRegistry") \in DOMAIN fs
     /\ fs[DataFile("getRegistry")].content = registryJSON

\* The texts of the registry document hold no local url.
C4_NoLocalUrl(s) == \A i \in 1..Len(s) : LocalUrlMatchEnd(s, i) = 0
C4_RegistryHasNoLocalUrl ==
  /\ C4_NoLocalUrl(registryJSON.s)
  /\ \A e \in RegistryEntriesFetched : C4_NoLocalUrl(e.url)

\* C4 amended: after a resolved run, if some status code of getRegistry
\* other than "default" has sample content for its selected content type,
\* the data.json of getRegistry holds the registry document with its local
\* urls replaced by the configured endpoint (the registry document itself
\* when it holds no local url), never the example or the sample fetched;
\* with no such status code no data.json is written for getRegistry.
C4_RegistryDataRewritten ==
  pc = "Done" =>
    \A o \in OperationsOf(merged) :
      o.op.operationId = "getRegistry" =>
        IF \E i \in DOMAIN o.op.responses :
             /\ o.op.responses[i].code # "default"
             /\ HasContent(o.op.responses[i])
        THEN /\ DataFile("getRegistry") \in DOMAIN fs
             /\ fs[DataFile("getRegistry")].content.t = "registry"
             /\ fs[DataFile("getRegistry")].content.endpointMap
                  = [i \in DOMAIN registryJSON.endpointMap |->
                       [registryJSON.endpointMap[i] EXCEPT
                          !.url = ReplaceLocalFrom(@, 1, EndpointsLocal)]]
             /\ fs[DataFile("getRegistry")].content.s
                  = ReplaceLocalFrom(registryJSON.s, 1, EndpointsLocal)
             /\ C4_RegistryHasNoLocalUrl
                  => fs[DataFile("getRegistry")].content = registryJSON
        ELSE DataFile("getRegistry") \notin DOMAIN fs

\* C4 witness: getRegistry was backfilled with a sample that differs from
\* the registry, the registry holds a local url, and its data.json is on
\* disk after a resolved run.
C4_Witness ==
  /\ pc = "Done"
  /\ DataFile("getRegistry") \in DOMAIN fs
  /\ ~C4_RegistryHasNoLocalUrl
  /\ UrlRegistry \in DOMAIN remote
  /\ remote[UrlRegistry] = Body(JLink(StrPlain))

\* The url of an entry without the '/ccstoreui/v1' it starts with.
C5_StripPrefix(url) == SubSeq(url, Len(ApiPrefix) + 1, Len(url))

\* An entry the claim covers: not in the fetched schema, GET, no path
\* parameter in its url, and its sample fetch returned a body.
C5_Backfilled(e) ==
  /\ e.key \notin IdsOf(schemaRequestResponse.value.paths)
  /\ e.method = "GET"
  /\ ~RegExpTest(<<"{">>, e.url)
  /\ e.url \in DOMAIN remote
  /\ ~FetchFailed(remote[e.url])

\* The data.json the materializer is to write for a sample: none when the
\* sample is no content, the registry document for getRegistry, local urls
\* replaced by the configured endpoint.
C5_DataFor(id, sample) ==
  LET data == IF id = "getRegistry" THEN registryJSON ELSE sample
  IN  [data EXCEPT !.s = ReplaceLocalFrom(@, 1, EndpointsLocal)]

\* C5 (backfill of a missing operation): after a resolved run, for every
\* GET entry of the registry that is not in the fetched schema and has no
\* path parameter, the merged schema holds at the stripped url, under "get",
\* an operation whose operationId and summary are the entry's identifier
\* and whose "200" application/json example is the sample fetched; and
\* responses/<operationId>/default holds descriptor.json and, the sample
\* being content, the data.json of that sample.
C5_Backfill ==
  pc = "Done" =>
    \A e \in RegistryEntriesFetched :
      C5_Backfilled(e) =>
        /\ \E o \in OperationsOf(merged) :
             /\ o.key = C5_StripPrefix(e.url)
             /\ o.method = "get"
             /\ o.op.operationId = e.id
             /\ o.op.summary = e.id
             /\ o.op.responses =
                  <<Response("200", <<Example("application/json",
                                               remote[e.url].value)>>)>>
        /\ FixtureDir(e.id) \in DOMAIN fs
        /\ DescriptorFile(e.id) \in DOMAIN fs
        /\ Truthy(remote[e.url].value) =>
             /\ DataFile(e.id) \in DOMAIN fs
             /\ fs[DataFile(e.id)].content = C5_DataFor(e.id, remote[e.url].value)

\* A top-level fetch of this run failed.
C6_FailedFetches ==
  {k \in {schemaURL, registryEndpoint} \cap DOMAIN remote : FetchFailed(remote[k])}
C6_ErrorOf(resp) ==
  IF resp.error THEN [name |-> "TransportError"]
  ELSE IF ~resp.json THEN [name |-> "SyntaxError"]
  ELSE [name |-> "NotFoundBody", body |-> resp.value]

\* C6 (fatal top-level fetch failure): when the schema fetch or the registry
\* fetch has failed, the run is Failed, the callback was called once with
\* that error, no sample fetch was issued and no file was written.
C6_TopLevelFailureIsFatal ==
  \A k \in C6_FailedFetches :
    /\ pc = "Failed"
    /\ callbacks = <<[argc |-> 1, error |-> C6_ErrorOf(remote[k])]>>
    /\ \A i \in DOMAIN requests : requests[i] \in {schemaURL, registryEndpoint}
    /\ writes = <<>>
    /\ fs = prevFs

\* C6 witness: the schema fetch resolved and the registry fetch failed with
\* the "404" body.
C6_Witness ==
  /\ pc = "Failed"
  /\ schemaURL \in DOMAIN remote /\ ~FetchFailed(remote[schemaURL])
  /\ registryEndpoint \in DOMAIN remote
  /\ remote[registryEndpoint] = Body(JStatus404)

\* A step of the stages: a dispatch starts a run; within a run the stage
\* stays, moves along the order, or moves from a stage that is not terminal
\* to Failed.
C7_StageStep(order) ==
  IF run' # run
  THEN pc \in {"Idle", "Done"} /\ pc' \in {"FetchingSchema", "Returned"}
  ELSE \/ pc' = pc
       \/ <<pc, pc'>> \in order
       \/ pc \notin {"Idle", "Done", "Failed", "Returned"} /\ pc' = "Failed"

C7_OrderAsStated ==
  { <<"FetchingSchema", "FetchingRegistry">>, <<"FetchingRegistry", "Merging">>,
    <<"Merging", "Normalizing">>, <<"Normalizing", "MaterializingFixtures">>,
    <<"MaterializingFixtures", "ExtractingDefinitions">>,
    <<"ExtractingDefinitions", "PersistingSchema">>,
    <<"PersistingSchema", "Done">> }

C7_OrderOfTheCode ==
  { <<"FetchingSchema", "FetchingRegistry">>, <<"FetchingRegistry", "Normalizing">>,
    <<"Normalizing", "Merging">>, <<"Merging", "MaterializingFixtures">>,
    <<"MaterializingFixtures", "ExtractingDefinitions">>,
    <<"ExtractingDefinitions", "PersistingSchema">>,
    <<"PersistingSchema", "Done">> }

\* C7 as stated (stage ordering): every step of a run follows the order
\* Idle, FetchingSchema, FetchingRegistry, Merging, Normalizing,
\* MaterializingFixtures, ExtractingDefinitions, PersistingSchema, Done, or
\* moves to Failed, where the run stays.
C7_StageOrderAsStated == [][C7_StageStep(C7_OrderAsStated)]_vars

\* C7 amended: every step of a run follows the order Idle, FetchingSchema,
\* FetchingRegistry, Normalizing, Merging, MaterializingFixtures,
\* ExtractingDefinitions, PersistingSchema, Done (the base path is
\* normalized before the registry merge, both before any fixture is
\* written), so no stage is entered twice, or moves from a stage that is not
\* terminal to Failed, where the run stays; a run whose callback received an
\* error of grab() is Failed.
C7_StageOrder ==
  [][/\ C7_StageStep(C7_OrderOfTheCode)
     /\ (pc' = "Merging" /\ pc = "Normalizing") =>
          /\ schemaJSON'.basePath
               = NormalizeBasePath(schemaRequestResponse.value.basePath)
          /\ schemaJSON'.paths = schemaRequestResponse.value.paths
          /\ writes' = <<>>
     /\ (run' = run /\ Len(callbacks') > Len(callbacks)
         /\ callbacks'[Len(callbacks) + 1].argc = 1) =>
          pc' = "Failed"]_vars

\* C7 witness: a run went through every stage and resolved after the
\* registry was merged into the schema.
C7_Witness ==
  /\ pc = "Done"
  /\ merged # schemaRequestResponse.value.paths
  /\ schemaJSON.basePath # schemaRequestResponse.value.basePath

\* C8 (best-effort enrichment): when the sample fetch of an entry fails, the
\* run does not fail: the entry's operation is inserted under its method
\* with the empty object as its "200" application/json example, and the
\* merge goes on to the next entry.
C8_SampleFailureSwallowed ==
  [][(pc = "Merging" /\ awaiting /\ ~awaiting') =>
       LET e == registryJSON.endpointMap[ei]
       IN  FetchFailed(remote'[e.url]) =>
             /\ pc' = "Merging"
             /\ ei' = ei + 1
             /\ callbacks' = callbacks
             /\ \E o \in OperationsOf(schemaJSON'.paths) :
                  /\ o.key = C5_StripPrefix(e.url)
                  /\ o.op.operationId = e.id
                  /\ o.op.responses =
                       <<Response("200", <<Example("application/json",
                                                    JEmptyObject)>>)>>]_vars

\* C8 witness: a run resolved although the sample fetch of a registry entry
\* failed, and wrote the fixture of that entry.
C8_Witness ==
  /\ pc = "Done"
  /\ \E e \in RegistryEntriesFetched :
       /\ e.url \in DOMAIN remote
       /\ FetchFailed(remote[e.url])
       /\ DataFile(e.id) \in DOMAIN fs
       /\ fs[DataFile(e.id)].content = JEmptyObject

\* C9 (action dispatch): a dispatch of an action other than "grab" issues no
\* request, writes no file and first calls the callback with no argument;
\* a dispatch of "grab" that resolves first calls the callback with a null
\* error.
C9_Dispatch ==
  /\ action \notin {"grab", "none"} =>
       /\ pc = "Returned"
       /\ requests = <<>>
       /\ writes = <<>>
       /\ fs = prevFs
       /\ Len(callbacks) >= 1
       /\ callbacks[1] = [argc |-> 0, error |-> [name |-> "undefined"]]
  /\ (action = "grab" /\ pc = "Done") =>
       /\ Len(callbacks) >= 1
       /\ callbacks[1] = [argc |-> 2, error |-> [name |-> "null"]]
  /\ (action = "grab" /\ pc \notin {"Done", "Failed"}) => callbacks = <<>>

\* C9 witness: an action other than "grab" was dispatched after a run of
\* "grab" had left files.
C9_Witness ==
  /\ action = "deploy"
  /\ run = 2
  /\ schemaPath \in DOMAIN fs

\* C10 (fetcher classification): makeRequest fails if and only if the
\* transport reports an error, the body is not valid JSON or the status of
\* the parsed body is the string "404"; otherwise it resolves with the body
\* and the response unchanged.
C10_Classification ==
  \A k \in DOMAIN remote :
    LET settled == MakeRequest(remote[k])
    IN  /\ ~settled.ok <=> FetchFailed(remote[k])
        /\ settled.ok => settled.response = remote[k]

\* The text with "ui" put after the first occurrence of a service name.
C11_UiAfter(text, name) ==
  LET at == {i \in 1..(Len(text) - Len(name) + 1) :
               SubSeq(text, i, i + Len(name) - 1) = name}
  IN  IF at = {} THEN text
      ELSE LET first == CHOOSE i \in at : \A j \in at : i <= j
               last == first + Len(name) - 1
           IN  SubSeq(text, 1, last) \o <<"u","i">>
                 \o SubSeq(text, last + 1, Len(text))
C11_HasUiMarker(text) ==
  \E i \in 1..(Len(text) - 1) : text[i] = "u" /\ text[i + 1] = "i"

\* C11 (base-path normalization): in the schema.json a run of grab() wrote,
\* the basePath is the fetched basePath with 'ccadmin' replaced by
\* 'ccadminui' and 'ccstore' by 'ccstoreui' when the fetched basePath holds
\* no "ui" ('/ccadmin/v1' becomes '/ccadminui/v1'), and the fetched basePath
\* itself when it holds "ui"; normalizing the persisted basePath again
\* changes nothing.
C11_BasePathNormalized ==
  (action = "grab" /\ pc = "Done") =>
    LET fetched == schemaRequestResponse.value.basePath
        persisted == fs[schemaPath].content.basePath
    IN  /\ ~C11_HasUiMarker(fetched) =>
             persisted = C11_UiAfter(C11_UiAfter(fetched, CcAdmin), CcStore)
        /\ fetched = BaseAdmin => persisted = BaseAdminUi
        /\ fetched = BaseStore => persisted = BaseStoreUi
        /\ C11_HasUiMarker(fetched) => persisted = fetched
        /\ NormalizeBasePath(persisted) = persisted

\* C11 witness: a run fetched '/ccadmin/v1' and persisted '/ccadminui/v1'.
C11_Witness ==
  /\ action = "grab" /\ pc = "Done"
  /\ schemaRequestResponse.value.basePath = BaseAdmin
  /\ fs[schemaPath].content.basePath = BaseAdminUi

\* The texts of the sample data that hold a local url, each with the text
\* the rewrite is to leave: the configured endpoint followed by what came
\* after the slash that ends the port.
C12_Rewritten(text) ==
  CASE text = StrLocalHttp -> EndpointsLocal \o <<"f","o","o">>
    [] text = StrLocalHttps -> EndpointsLocal \o <<"b","a","r">>
    [] text = StrLocalTwice ->
         EndpointsLocal \o <<"a",",">> \o EndpointsLocal \o <<"b">>
    [] OTHER -> text
C12_Listed == {StrLocalHttp, StrLocalHttps, StrLocalTwice}
C12_HasPort(text) ==
  \E i \in 1..Len(text) :
    /\ i + Len(LocalhostWord) <= Len(text)
    /\ SubSeq(text, i, i + Len(LocalhostWord) - 1) = LocalhostWord
    /\ text[i + Len(LocalhostWord)] \in Digits

\* The data a status code hands to the writer: the example of the selected
\* content type, the registry document for getRegistry.
C12_DataOf(op, response) ==
  IF op.operationId = "getRegistry" THEN registryJSON
  ELSE ExampleFor(ExamplesOf(response), ContentType(ExamplesOf(response)))
C12_Texts(data) ==
  {data.s} \cup (IF data.t = "registry"
                   THEN {data.endpointMap[i].url : i \in DOMAIN data.endpointMap}
                   ELSE {})

\* C12 (local url rewrite): whenever grab() writes a data.json, the file
\* holds the data of the status code with every
\* http://localhost:<port>/<rest> and https://localhost:<port>/<rest> in it
\* replaced by the configured endpoint followed by <rest>, whatever the
\* port and however many there are, and everything else as it was.
C12_LocalUrlsRewritten ==
  [][(run' = run /\ Len(writes') > Len(writes)
      /\ writes'[Len(writes) + 1][Len(writes'[Len(writes) + 1])] = "data.json") =>
       LET op == OperationAt(schemaJSON.paths, pos.o)
           data == C12_DataOf(op, op.responses[pos.s])
           written == fs'[writes'[Len(writes) + 1]].content
       IN  /\ writes'[Len(writes) + 1] = DataFile(op.operationId)
           /\ \A text \in C12_Texts(data) :
                text \notin C12_Listed => ~C12_HasPort(text)
           /\ written.t = data.t
           /\ written.s = C12_Rewritten(data.s)
           /\ data.t = "registry" =>
                /\ Len(written.endpointMap) = Len(data.endpointMap)
                /\ \A i \in DOMAIN data.endpointMap :
                     written.endpointMap[i] =
                       [data.endpointMap[i] EXCEPT !.url = C12_Rewritten(@)]
           /\ data.t # "registry" => written = [data EXCEPT !.s = C12_Rewritten(@)]]_vars

\* C12 witness: a data.json on disk holds the rewrite of a sample with two
\* local urls of different ports.
C12_Witness ==
  /\ DataFile("listItems") \in DOMAIN fs
  /\ fs[DataFile("listItems")].content.s
       = EndpointsLocal \o <<"a",",">> \o EndpointsLocal \o <<"b">>

\* The descriptor files on disk under the fixture directory of an operation.
C13_DescriptorsOf(id) ==
  {f \in DOMAIN fs :
     /\ Len(f) >= 3
     /\ f[1] = "responses" /\ f[2] = id /\ f[Len(f)] = "descriptor.json"
     /\ fs[f].kind = "file"}

\* The data file a descriptor names, resolved against its directory, holds
\* the data of the response with its local urls rewritten.
C13_HoldsData(f, op, response) ==
  LET target == PathJoin(SubSeq(f, 1, Len(f) - 1), fs[f].content.response.dataPath)
      data == C12_DataOf(op, response)
  IN  /\ target \in DOMAIN fs
      /\ fs[target].kind = "file"
      /\ fs[target].content.t = data.t
      /\ fs[target].content.s = C12_Rewritten(data.s)

\* C13 (fixture coverage): when a run of grab() has resolved, every
\* operation of the persisted schema has, for each status code it declared
\* other than "default", a descriptor file on disk that records that status
\* code and the operation's method, and, when the status code had response
\* data, names a data file holding that data.
C13_FixtureCoverage ==
  (action = "grab" /\ pc = "Done") =>
    \A o \in OperationsOf(merged) :
      \A i \in DOMAIN o.op.responses :
        o.op.responses[i].code # "default" =>
          \E f \in C13_DescriptorsOf(o.op.operationId) :
            /\ fs[f].content.response.statusCode = o.op.responses[i].code
            /\ fs[f].content.request.method = o.method
            /\ HasContent(o.op.responses[i]) =>
                 C13_HoldsData(f, o.op, o.op.responses[i])

\* C14 (definitions): whenever schema.json has been written, the document
\* written has no definitions attribute, every definition of the fetched
\* schema was written earlier in the run to definitions/<Name>.json with
\* the value fetched, and the responses of every operation of the document
\* is the relative path of its fixture directory, never a responses map.
C14_DefinitionsExtracted ==
  \A k \in DOMAIN writes :
    writes[k] = <<"schema.json">> =>
      LET document == fs[<<"schema.json">>].content
          fetched == schemaRequestResponse.value.definitions
      IN  /\ ~document.hasDefinitions
          /\ document.definitions = <<>>
          /\ \A d \in DOMAIN fetched :
               /\ \E j \in 1..(k - 1) : writes[j] = <<"definitions", fetched[d].name>>
               /\ fs[<<"definitions", fetched[d].name>>] = File(fetched[d].value)
          /\ \A o \in OperationsOf(document.paths) :
               /\ o.op.responsesKind = "path"
               /\ o.op.responses = <<>>
               /\ o.op.responsesPath = <<"responses", o.op.operationId>>

\* C14 witness: schema.json was written for a fetched schema with two
\* definitions and an operation that had a responses map.
C14_Witness ==
  /\ Len(writes) >= 1
  /\ writes[Len(writes)] = <<"schema.json">>
  /\ Len(schemaRequestResponse.value.definitions) = 2
  /\ OperationsOf(fs[<<"schema.json">>].content.paths) # {}

\* The first media type of the examples, in declaration order, that is a
\* registered web MIME type; 'application/json' when there is none.
C15_FirstRegistered(examples) ==
  LET registered == {i \in DOMAIN examples : examples[i].mime \in webMIMETypes}
  IN  IF registered = {} THEN "application/json"
      ELSE examples[CHOOSE i \in registered : \A j \in registered : i <= j].mime

\* C15 (content-type selection): whenever the descriptor of a status code
\* is written, the content type of the fixture is the first declared media
\* type that is a registered web MIME type, 'application/json' when none
\* is: the content-type header of the descriptor names it when its example
\* is data, and data.json then holds that example.
C15_ContentTypeSelection ==
  [][(run' = run /\ Len(writes') > Len(writes)
      /\ writes'[Len(writes')][Len(writes'[Len(writes')])] = "descriptor.json") =>
       LET op == OperationAt(schemaJSON.paths, pos.o)
           examples == ExamplesOf(op.responses[pos.s])
           contentType == C15_FirstRegistered(examples)
           example == ExampleFor(examples, contentType)
           descriptor == fs'[DescriptorFile(op.operationId)].content
       IN  IF Truthy(example)
           THEN /\ descriptor.response.headers
                     = <<[name |-> "content-type", value |-> contentType]>>
                /\ DataFile(op.operationId) \in DOMAIN fs'
                /\ op.operationId # "getRegistry" =>
                     fs'[DataFile(op.operationId)].content
                       = [example EXCEPT !.s = C12_Rewritten(@)]
           ELSE descriptor.response.headers = <<>>]_vars

\* The url holds a bracketed token: an opening brace with a closing brace
\* somewhere after it, as in '{id}' and in '{}'.
C16_HasBracketedToken(url) ==
  \E i, j \in 1..Len(url) : i < j /\ url[i] = "{" /\ url[j] = "}"
\* The url holds the token '{}'.
C16_HasEmptyBraces(url) ==
  \E i \in 1..(Len(url) - 1) : url[i] = "{" /\ url[i + 1] = "}"

\* The step of the merge that looks at the entry the loop is at: a sample
\* request is issued for that entry exactly when the entry is absent from
\* the fetched schema, its method is GET and its url is not excluded; no
\* url is requested twice in a run.
C16_GuardStep(Excluded(_)) ==
  (pc = "Merging" /\ pc' = "Merging" /\ ~awaiting
   /\ ei \in 1..Len(registryJSON.endpointMap)) =>
    LET e == registryJSON.endpointMap[ei]
        due == /\ e.key \notin IdsOf(schemaRequestResponse.value.paths)
               /\ e.method = "GET"
               /\ ~Excluded(e.url)
    IN  /\ due => requests' = Append(requests, e.url) /\ awaiting'
        /\ ~due => requests' = requests /\ ~awaiting'
        /\ \A i, j \in DOMAIN requests' : i # j => requests'[i] # requests'[j]

\* C16 as stated (enrichment guard): a sample fetch is issued for a registry
\* entry if and only if its operationId is absent from the fetched schema,
\* its method is GET and its url holds no bracketed token such as '{id}';
\* at most one per entry, none for a url with such a token.
C16_GuardAsStated == [][C16_GuardStep(C16_HasBracketedToken)]_vars

\* C16 amended: as above, where the placeholder that excludes a url is the
\* token '{}' only; an entry whose url holds a named token such as '{id}'
\* has its sample fetched.
C16_Guard == [][C16_GuardStep(C16_HasEmptyBraces)]_vars

\* C16 witness: the merge has ended for a registry with an entry whose url
\* holds '{}', which was not requested, and one whose url holds '{id}',
\* which was.
C16_Witness ==
  /\ MergeEnded
  /\ \E e \in RegistryEntriesFetched :
       /\ C16_HasEmptyBraces(e.url)
       /\ \A i \in DOMAIN requests : requests[i] # e.url
  /\ \E e \in RegistryEntriesFetched :
       /\ ~C16_HasEmptyBraces(e.url) /\ C16_HasBracketedToken(e.url)
       /\ \E i \in DOMAIN requests : requests[i] = e.url

\* C17 (write-once fixtures): within a run of grab() no descriptor.json and
\* no data.json is written more than once, whatever the number of status
\* codes an operation declares; a file is written again only by a later
\* run.
C17_WrittenOnce ==
  \A i, j \in DOMAIN writes :
    (i # j /\ writes[i][Len(writes[i])] \in {"descriptor.json", "data.json"})
      => writes[i] # writes[j]

\* The requests of the run that were issued and have not settled.
C18_Outstanding == Len(requests) - answered

\* The writes of a file so far in the run.
C18_WritesOf(file) == {k \in DOMAIN writes : writes[k] = file}

\* C18 (sequential suspension): at most one request is outstanding at any
\* point of a run, and a file write has completed when the next operation
\* is issued; the registry request is issued only when the schema request
\* has resolved, a sample request only when every request before it has
\* settled; and the responses of an operation become the relative path only
\* when the descriptor of each of its status codes other than "default",
\* and the data file of each that had data, has been written.
C18_Sequential ==
  [][/\ Len(requests') - answered' \in {0, 1}
     /\ (run' = run /\ Len(requests') > Len(requests)) =>
          /\ Len(requests') = Len(requests) + 1
          /\ answered' = Len(requests)
          /\ requests'[Len(requests')] = <<"registryEndpoint">> =>
               /\ requests = <<(<<"schemaURL">>)>>
               /\ ~FetchFailed(remote'[<<"schemaURL">>])
               /\ schemaRequestResponse' = remote'[<<"schemaURL">>]
     /\ (run' = run /\ writes' # writes) =>
          /\ C18_Outstanding = 0
          /\ requests' = requests
     /\ (pc = "MaterializingFixtures" /\ pc' = "MaterializingFixtures") =>
          \A o \in 1..Len(Operations(schemaJSON.paths)) :
            LET before == OperationAt(schemaJSON.paths, o)
                after == OperationAt(schemaJSON'.paths, o)
                declared == {i \in DOMAIN before.responses :
                               before.responses[i].code # "default"}
                withData == {i \in declared : HasContent(before.responses[i])}
            IN  (before.responsesKind = "map" /\ after.responsesKind = "path") =>
                  /\ writes' = writes
                  /\ Cardinality(C18_WritesOf(DescriptorFile(before.operationId)))
                       = Cardinality(declared)
                  /\ Cardinality(C18_WritesOf(DataFile(before.operationId)))
                       = Cardinality(withData)]_vars

\* C18 witness: a run resolved after two sample requests, each issued when
\* the one before had settled, and after writing fixtures.
C18_Witness ==
  /\ pc = "Done"
  /\ Len(requests) = 4
  /\ answered = 4
  /\ Len(writes) >= 5

\* C19 (merge preserves the fetched schema): once the merge has ended,
\* every (path, method) operation of the fetched schema is an operation of
\* the merged schema, at the same path and method and with the same
\* operationId, whatever path keys the backfilled entries have.
C19_MergePreservesSchema ==
  MergeEnded =>
    \A before \in OperationsOf(schemaRequestResponse.value.paths) :
      \E after \in OperationsOf(merged) :
        /\ after.key = before.key
        /\ after.method = before.method
        /\ after.op.operationId = before.op.operationId

\* C20 (single completion): the callback of a dispatch is never invoked
\* more than once, and has been invoked exactly once when the dispatch has
\* ended, with an error or with a result and no error, whatever the action,
\* however the run ends and whether or not the callback throws.
C20_SingleCompletion ==
  /\ Len(callbacks) <= 1
  /\ pc \in {"Done", "Failed", "Returned"} =>
       /\ Len(callbacks) = 1
       /\ pc = "Failed" <=> callbacks[1].argc = 1

====
